---- MODULE Spec2Model ----
(***************************************************************************)
(* State machine of the growth-app quest planner (a React page component). *)
(* The repository holds three iterations of the same page:                 *)
(*   "part_001"  src/unnamed/part_001   (no score)                         *)
(*   "page"      src/src/app/page.tsx   (score kept in React state)        *)
(*   "part_002"  src/unnamed/part_002   (score derived, day-level switch)  *)
(* `variant` fixes which iteration a behaviour runs.  Each action is one   *)
(* event handler run to completion, followed by React's re-render.         *)
(* Category keys and quest titles are written in ASCII:                    *)
(*   exercise = 運動, learning = 学習, habit = 習慣, faith = 信仰,         *)
(*   social = 人間力, finance = 金銭, sleep = 睡眠, diet = 食事,           *)
(*   mental = メンタル; title "<category><k>" is entry k of that pool.     *)
(***************************************************************************)
EXTENDS Integers, Sequences, FiniteSets, TLC

VARIABLES
  variant,      \* which iteration of page.tsx is running
  state,        \* useState<AppState | null>
  storage,      \* localStorage entry under STORAGE_KEY
  selected,     \* useState<CategoryKey[]>: pending category selection
  score,        \* page.tsx: useState(0)
  totalPoints,  \* part_002: memoised useMemo value, deps [state?.plans]
  err,          \* exception raised by the last handler, or "none"
  last,         \* name of the last handler that ran
  target,       \* what the last handler's (dayIdx, qid) pointed at when called
  ops,          \* number of handlers run so far
  budget,       \* number of handlers a behaviour may run
  arg,          \* argument of the function called on its own, or "none"
  res,          \* what that call returned, or "none"
  now,          \* the browser's clock, in ticks
  todayIndex,   \* memoised useMemo value, deps [state?.createdAt]
  chat          \* ChatView: messages, isTyping, the timers set and not yet
                \* run, and the number of messages sent so far

vars == <<variant, state, storage, selected, score, totalPoints, err, last, target, ops, budget, arg, res, now, todayIndex, chat>>

----------------------------------------------------------------------------
(* Bounds of the model *)

\* handlers run in one behaviour of Spec
MaxOps == 5

\* handlers run in one behaviour of SpecScenario
MaxScenarioOps == 6

\* largest score passed to calculateRank in SpecRank
MaxScoreArg == 1100

\* longest selection passed to buildWeekPlan in SpecPlan
MaxSelLen == 4

\* the clock of SpecClock stops at this tick (8 days)
MaxNow == 16

\* handlers run in one behaviour of SpecClock
MaxClockOps == 3

\* most words in a text passed to mockAssistant in SpecReply
MaxTextLen == 3

\* handlers run in one behaviour of SpecToggle
MaxToggleOps == 4

\* messages sent in one behaviour of SpecChat
MaxChatSubmits == 2

----------------------------------------------------------------------------
(* Constants of the program *)

Variants == {"part_001", "page", "part_002"}

POINTS_PER_QUEST == 10

NumDays == 7

MaxQuestsPerDay == 5

\* 1000 * 60 * 60 * 24 ms, counted in clock ticks of half a day
TicksPerDay == 2

\* the step of the chat clock, in ms: every setTimeout delay of ChatView is
\* a multiple of it
ChatTick == 50

TEMPLATE_QUESTS ==
  [ exercise |-> <<"exercise0", "exercise1", "exercise2">>,
    learning |-> <<"learning0", "learning1", "learning2">>,
    habit    |-> <<"habit0", "habit1", "habit2">>,
    faith    |-> <<"faith0", "faith1", "faith2">>,
    social   |-> <<"social0", "social1", "social2">>,
    finance  |-> <<"finance0", "finance1", "finance2">>,
    sleep    |-> <<"sleep0", "sleep1", "sleep2">>,
    diet     |-> <<"diet0", "diet1", "diet2">>,
    mental   |-> <<"mental0", "mental1", "mental2">> ]

DEFAULT_THEME == [backgroundColor |-> "#ffffff", textColor |-> "#000000"]

\* state === null
Null == [null |-> TRUE]

\* localStorage.getItem(STORAGE_KEY) === null
NoEntry == [entry |-> FALSE]

\* an entry holding the empty string
EmptyEntry == [entry |-> TRUE, text |-> ""]

\* an entry holding text that is not JSON
CorruptEntry == [entry |-> TRUE, text |-> "{plans:"]

\* a browser whose localStorage refuses access: getItem throws
Unavailable == [entry |-> FALSE, denied |-> TRUE]

\* an exception on its way up the call stack
Thrown(name) == [thrown |-> name]

IsThrown(v) == "thrown" \in DOMAIN v

\* `progress: undefined` of a quest (a number field: -1 stands for undefined)
UndefinedNum == -1

----------------------------------------------------------------------------
(* Inputs *)

\* categories the user clicks in the wizard
CategoryInputs == {"habit"}

\* day indices passed to the handlers: first day, last day, one past the end
DayIdxInputs == {0, NumDays - 1, NumDays}

\* positions of the quests of a day whose ids are passed to the handlers
PosInputs == {1, 2, 3}

\* quest ids no quest carries (uid draws are numbered from 1)
MissingIds == {0}

\* themes passed to onThemeChange
ThemeInputs == {[DEFAULT_THEME EXCEPT !.backgroundColor = "#112233"]}

\* categories the selections passed to buildWeekPlan are made of
SelectableCategories == {"exercise", "learning", "habit", "faith", "mental"}

\* selections passed to buildWeekPlan: toggleCategory never holds a key twice
SelectionInputs ==
  {sel \in UNION {[1..n -> SelectableCategories] : n \in 1..MaxSelLen} :
     \A a, b \in DOMAIN sel : a # b => sel[a] # sel[b]}

\* words the texts passed to mockAssistant are made of
ChatWords ==
  {"help", "komatta", "konnichiwa", "WEATHER", "eigo", "undou", "?", "pad", " "}

\* texts passed to mockAssistant
TextInputs == UNION {[1..n -> ChatWords] : n \in 1..MaxTextLen}

\* conversations passed to mockAssistant: the opening line alone, and one
\* with an earlier user message
HistoryInputs ==
  {<<[role |-> "assistant", content |-> "opening"]>>,
   <<[role |-> "assistant", content |-> "opening"],
     [role |-> "user", content |-> <<"pad", "pad", "undou">>],
     [role |-> "assistant", content |-> "exercise"]>>}

\* texts submitted in the chat: one per reply delay the responders have, and
\* a blank one
SubmitInputs ==
  {<<"help">>, <<"konnichiwa">>, <<"pad", "?">>, <<" ", "status">>,
   <<"bunseki">>, <<" ">>}

\* outcomes of shuffle while a chat reply is made: no exchange at all, and
\* every element exchanged with the first
SubmitShuffleDraws == {[i \in 1..4 |-> i], [i \in 1..4 |-> 0]}

\* outcomes of Math.random while a plan is built.  "plain": every uid() draw
\* distinct and every progress undefined; "repeat": the second uid() draw
\* repeats the first and the first quest draws progress 79
RandomSources == {"plain", "repeat"}

----------------------------------------------------------------------------
(* Pure helpers *)

Max(a, b) == IF a >= b THEN a ELSE b

Min(a, b) == IF a <= b THEN a ELSE b

\* the k-th call of uid() while one plan is built
uid(src, k) == IF src = "repeat" /\ k = 2 THEN 1 ELSE k

\* the progress drawn for the k-th quest pushed
progressDraw(src, k) == IF src = "repeat" /\ k = 1 THEN 79 ELSE UndefinedNum

\* calculateRank with > in place of >=
calculateRankAboveOnly(s) ==
  IF s > 1000 THEN "Sovereign"
  ELSE IF s > 500 THEN "Duke"
  ELSE IF s > 200 THEN "Marquis"
  ELSE IF s > 100 THEN "Knight"
  ELSE IF s > 50 THEN "Squire"
  ELSE "Novice"

calculateRank(s) ==
  IF s >= 1000 THEN "Sovereign"
  ELSE IF s >= 500 THEN "Duke"
  ELSE IF s >= 200 THEN "Marquis"
  ELSE IF s >= 100 THEN "Knight"
  ELSE IF s >= 50 THEN "Squire"
  ELSE "Novice"

addScore(currentScore, points) == currentScore + points

\* part_002 rankOrder: the tiers from lowest to highest
rankOrder == <<"Novice", "Squire", "Knight", "Marquis", "Duke", "Sovereign">>

\* part_002 thresholdByRank
thresholdByRank ==
  [Novice |-> 0, Squire |-> 50, Knight |-> 100, Marquis |-> 200,
   Duke |-> 500, Sovereign |-> 1000]

\* rankOrder.indexOf(rank), counted from 1
RankIndex(r) == CHOOSE i \in DOMAIN rankOrder : rankOrder[i] = r

\* part_002 nextRank
nextRank(currentRank) ==
  rankOrder[Min(RankIndex(currentRank) + 1, Len(rankOrder))]

\* toNext without Math.max(..., 0)
toNextUnclamped(total) ==
  thresholdByRank[nextRank(calculateRank(total))] - total

\* part_002 toNext for totalPoints = total
toNext(total) ==
  Max(thresholdByRank[nextRank(calculateRank(total))] - total, 0)

\* NewQuest with the rotation counted from day 0: base = (i - 1 + idx) % length
NewQuestDayFromZero(v, sel, i, j, rnd) ==
  LET idx   == (j - 1) \div 2
      which == (j - 1) % 2
      cat   == sel[idx + 1]
      cands == TEMPLATE_QUESTS[cat]
      base  == (i - 1 + idx) % Len(cands)
      t     == IF which = 0 THEN cands[base + 1]
               ELSE cands[((base + 1) % Len(cands)) + 1]
      k     == (i - 1) * 2 * Len(sel) + j
  IN IF v = "part_002"
     THEN [id |-> uid(rnd, k), title |-> t, done |-> FALSE, enabled |-> TRUE,
           category |-> cat,
           points |-> POINTS_PER_QUEST + (IF which = 1 THEN 5 ELSE 0),
           progress |-> progressDraw(rnd, k), locked |-> FALSE]
     ELSE [id |-> uid(rnd, k), title |-> t, done |-> FALSE, enabled |-> TRUE]

\* the quest pushed for day i (1..7) as the j-th push (1..2n) of that day
NewQuest(v, sel, i, j, rnd) ==
  LET idx   == (j - 1) \div 2
      which == (j - 1) % 2
      cat   == sel[idx + 1]
      cands == TEMPLATE_QUESTS[cat]
      base  == (i + idx) % Len(cands)
      t     == IF which = 0 THEN cands[base + 1]
               ELSE cands[((base + 1) % Len(cands)) + 1]
      k     == (i - 1) * 2 * Len(sel) + j
  IN IF v = "part_002"
     THEN [id |-> uid(rnd, k), title |-> t, done |-> FALSE, enabled |-> TRUE,
           category |-> cat,
           points |-> POINTS_PER_QUEST + (IF which = 1 THEN 5 ELSE 0),
           progress |-> progressDraw(rnd, k), locked |-> FALSE]
     ELSE [id |-> uid(rnd, k), title |-> t, done |-> FALSE, enabled |-> TRUE]

\* buildWeekPlan keeping the last 5 quests pushed: quests.slice(-5)
buildWeekPlanKeepingLast(v, sel, rnd) ==
  [i \in 1..NumDays |->
     [day |-> i,
      quests |-> LET n    == 2 * Len(sel)
                     kept == Min(MaxQuestsPerDay, n)
                 IN [j \in 1..kept |-> NewQuest(v, sel, i, n - kept + j, rnd)]]]

\* buildWeekPlan without quests.slice(0, 5)
buildWeekPlanUntrimmed(v, sel, rnd) ==
  [i \in 1..NumDays |->
     [day |-> i,
      quests |-> [j \in 1..(2 * Len(sel)) |-> NewQuest(v, sel, i, j, rnd)]]]

buildWeekPlan(v, sel, rnd) ==
  [i \in 1..NumDays |->
     [day |-> i,
      quests |-> [j \in 1..Min(MaxQuestsPerDay, 2 * Len(sel)) |->
                    NewQuest(v, sel, i, j, rnd)]]]

\* StringifyQuest leaving out the progress key whatever its value
StringifyQuestWithoutProgress(q) ==
  [k \in DOMAIN q \ {"progress"} |-> q[k]]

\* JSON.stringify of a quest: a key whose value is undefined is left out
StringifyQuest(q) ==
  IF "progress" \in DOMAIN q /\ q.progress = UndefinedNum
  THEN [k \in DOMAIN q \ {"progress"} |-> q[k]]
  ELSE q

\* JSON.stringify(state), kept as the tree the text encodes
JSONstringify(s) ==
  [json |->
     [k \in DOMAIN s |->
        IF k = "plans"
        THEN [i \in DOMAIN s.plans |->
                [day |-> s.plans[i].day,
                 quests |-> [j \in DOMAIN s.plans[i].quests |->
                               StringifyQuest(s.plans[i].quests[j])]]]
        ELSE s[k]]]

\* JSON.parse(raw)
JSONparse(raw) ==
  IF "json" \in DOMAIN raw THEN raw.json ELSE Thrown("SyntaxError")

saveState(s) == JSONstringify(s)

\* localStorage.getItem(STORAGE_KEY) on a store holding `store`
getItem(store) ==
  IF store = Unavailable THEN Thrown("SecurityError") ELSE store

\* the body of loadState's try block: raw ? JSON.parse(raw) : null
TryLoad(store) ==
  LET raw == getItem(store)
  IN IF IsThrown(raw) THEN raw
     ELSE IF raw = NoEntry \/ raw = EmptyEntry THEN Null
     ELSE JSONparse(raw)

\* loadState without try / catch
loadStateWithoutCatch(store) == TryLoad(store)

\* loadState: whatever the try block throws is caught and null returned
loadState(store) ==
  LET r == TryLoad(store) IN IF IsThrown(r) THEN Null ELSE r

hasPlan(s) == s # Null /\ Len(s.plans) > 0

\* state?.createdAt
CreatedAt(s) == IF s = Null THEN UndefinedNum ELSE s.createdAt

\* the function todayIndex memoises, run at clock t
ComputeTodayIndex(s, t) ==
  IF CreatedAt(s) = UndefinedNum THEN 0
  ELSE Max(0, Min(6, (t - CreatedAt(s)) \div TicksPerDay))

\* useMemo(..., [state?.createdAt]) in the render that follows s1 -> s2 at
\* clock t: recomputed only when the dependency changed
MemoTodayIndex(s1, s2, held, t) ==
  IF CreatedAt(s2) = CreatedAt(s1) THEN held ELSE ComputeTodayIndex(s2, t)

\* every quest of every day, as <<day position, quest position>>
AllQuests(s) ==
  IF s = Null THEN {}
  ELSE {x \in (DOMAIN s.plans) \X (1..MaxQuestsPerDay) :
          x[2] \in DOMAIN s.plans[x[1]].quests}

QuestAt(s, x) == s.plans[x[1]].quests[x[2]]

\* part_002 totalPoints, computed from scratch
ComputeTotalPoints(s) ==
  IF s = Null THEN 0
  ELSE Cardinality({x \in AllQuests(s) :
                      QuestAt(s, x).enabled /\ QuestAt(s, x).done})
       * POINTS_PER_QUEST

\* the useMemo value after a render in which state.plans is a new object
Memo(v, s) == IF v = "part_002" THEN ComputeTotalPoints(s) ELSE 0

\* day.quests.find((x) => x.id === qid): position of the first match, 0 if none
FindQuest(quests, qid) ==
  IF \E j \in DOMAIN quests : quests[j].id = qid
  THEN CHOOSE j \in DOMAIN quests :
         /\ quests[j].id = qid
         /\ \A h \in DOMAIN quests : quests[h].id = qid => j <= h
  ELSE 0

\* ids handed to the toggle handlers for day index d
QidInputs(s, d) ==
  MissingIds \cup
  (IF s # Null /\ d + 1 \in DOMAIN s.plans
   THEN {s.plans[d + 1].quests[j].id :
           j \in DOMAIN s.plans[d + 1].quests \cap PosInputs}
   ELSE {})

----------------------------------------------------------------------------
(* The chat responder.  A text is the sequence of its words; the words are  *)
(* written in ASCII: komatta = 困った, konnichiwa = こんにちは,              *)
(* eigo = 英語, undou = 運動, shinchoku = 進捗, bunseki = 分析;              *)
(* "pad" is a run of 24 characters no rule looks for, " " one blank.        *)

\* String.length of each word
WordLength ==
  ("help" :> 4) @@ ("komatta" :> 3) @@ ("konnichiwa" :> 5)
  @@ ("WEATHER" :> 7) @@ ("weather" :> 7) @@ ("eigo" :> 2) @@ ("undou" :> 2)
  @@ ("?" :> 1) @@ ("pad" :> 24) @@ (" " :> 1)
  @@ ("status" :> 6) @@ ("bunseki" :> 2)

\* text.length
RECURSIVE TextLength(_)
TextLength(text) ==
  IF text = <<>> THEN 0 ELSE WordLength[Head(text)] + TextLength(Tail(text))

RECURSIVE trimStart(_)
trimStart(text) ==
  IF text # <<>> /\ Head(text) = " " THEN trimStart(Tail(text)) ELSE text

RECURSIVE trimEnd(_)
trimEnd(text) ==
  IF text # <<>> /\ text[Len(text)] = " "
  THEN trimEnd(SubSeq(text, 1, Len(text) - 1)) ELSE text

\* input.trim()
trim(text) == trimEnd(trimStart(text))

\* text.toLowerCase()
toLowerCase(text) ==
  [i \in DOMAIN text |-> IF text[i] = "WEATHER" THEN "weather" ELSE text[i]]

\* /a|b/.test(text)
Contains(text, words) == \E i \in DOMAIN text : text[i] \in words

\* /^a|^b/.test(text)
StartsWith(text, words) == text # <<>> /\ Head(text) \in words

\* /[ab]$/.test(text)
EndsWith(text, words) == text # <<>> /\ text[Len(text)] \in words

\* /^help|^ヘルプ|困った|どう使/.test(text)
MatchesUsage(text) == StartsWith(text, {"help"}) \/ Contains(text, {"komatta"})

\* /こんにちは|初めまして|こんちは/.test(text)
MatchesGreeting(text) == Contains(text, {"konnichiwa"})

\* /天気|weather/.test(lower)
MatchesWeather(text) == Contains(toLowerCase(text), {"weather"})

\* /英単語|単語|英語/.test(text)
MatchesVocabulary(text) == Contains(text, {"eigo"})

\* /運動|筋トレ|ストレッチ|走/.test(text)
MatchesExercise(text) == Contains(text, {"undou"})

\* /[?？]$/.test(text)
MatchesQuestion(text) == EndsWith(text, {"?"})

\* a reply: the rule that made it, its String.length, and what it quotes
Reply(rule, chars) == [rule |-> rule, chars |-> chars, quoted |-> <<>>, tips |-> <<>>]

\* the five tips of the fallback rule, by position, and their lengths
TipLength == <<11, 10, 9, 6, 12>>

\* a[i] and a[j] exchanged (positions counted from 0)
Swapped(a, i, j) ==
  [k \in DOMAIN a |-> IF k = i + 1 THEN a[j + 1]
                      ELSE IF k = j + 1 THEN a[i + 1] ELSE a[k]]

\* a[i] overwritten with a[j] (positions counted from 0)
Overwritten(a, i, j) == [a EXCEPT ![i + 1] = a[j + 1]]

\* what Math.floor(Math.random() * (i + 1)) can give in the loop of shuffle:
\* one draw for each i = 4, 3, 2, 1
ShuffleDraws == {d \in [1..4 -> 0..4] : \A i \in 1..4 : d[i] <= i}

\* shuffle that copies a[j] into a[i] instead of exchanging the two
shuffleOverwriting(arr, d) ==
  Overwritten(Overwritten(Overwritten(Overwritten(arr, 4, d[4]), 3, d[3]), 2, d[2]), 1, d[1])

\* shuffle(arr) with the draws d
shuffle(arr, d) ==
  Swapped(Swapped(Swapped(Swapped(arr, 4, d[4]), 3, d[3]), 2, d[2]), 1, d[1])

\* [...history].reverse().find((m) => m.role === "user")?.content ?? ""
LastUserContent(history) ==
  LET users == {i \in DOMAIN history : history[i].role = "user"}
  IN IF users = {} THEN <<>>
     ELSE history[CHOOSE i \in users : \A h \in users : h <= i].content

\* the reply of the question rule: the frame around lastUser.slice(0, 40)
QuestionReply(history) ==
  LET lastUser == LastUserContent(history)
  IN [rule |-> "question", chars |-> 25 + Min(40, TextLength(lastUser)),
      quoted |-> lastUser, tips |-> <<>>]

RECURSIVE JoinedLength(_)
\* tips.join(" / ").length
JoinedLength(tips) ==
  IF tips = <<>> THEN 0
  ELSE TipLength[Head(tips)]
       + (IF Len(tips) > 1 THEN 3 ELSE 0) + JoinedLength(Tail(tips))

\* the reply of the fallback rule
FallbackReply(text, d) ==
  LET n    == Max(3, Min(5, TextLength(text) \div 12))
      pick == SubSeq(shuffle(<<1, 2, 3, 4, 5>>, d), 1, n)
  IN [rule |-> "fallback", chars |-> 19 + JoinedLength(pick),
      quoted |-> <<>>, tips |-> pick]

\* part_002 mockAssistant: a stand-in with two keyword rules
mockAssistantStub(input) ==
  IF Contains(input, {"shinchoku", "status"}) THEN Reply("status", 30)
  ELSE IF Contains(input, {"bunseki"}) THEN Reply("data", 44)
  ELSE Reply("acknowledge", 26)

\* mockAssistant of page.tsx testing the greeting before the usage rule
mockAssistantGreetingFirst(v, input, history, d) ==
  IF v = "part_002" THEN mockAssistantStub(input)
  ELSE LET text == trim(input)
       IN IF MatchesGreeting(text) THEN Reply("greeting", 30)
          ELSE IF MatchesUsage(text) THEN Reply("usage", 44)
          ELSE IF MatchesWeather(text) THEN Reply("weather", 71)
          ELSE IF MatchesVocabulary(text) THEN Reply("vocabulary", 49)
          ELSE IF MatchesExercise(text) THEN Reply("exercise", 46)
          ELSE IF MatchesQuestion(text) THEN QuestionReply(history)
          ELSE FallbackReply(text, d)

\* mockAssistant(input, history), d being the draws of shuffle
mockAssistant(v, input, history, d) ==
  IF v = "part_002" THEN mockAssistantStub(input)
  ELSE LET text == trim(input)
       IN IF MatchesUsage(text) THEN Reply("usage", 44)
          ELSE IF MatchesGreeting(text) THEN Reply("greeting", 30)
          ELSE IF MatchesWeather(text) THEN Reply("weather", 71)
          ELSE IF MatchesVocabulary(text) THEN Reply("vocabulary", 49)
          ELSE IF MatchesExercise(text) THEN Reply("exercise", 46)
          ELSE IF MatchesQuestion(text) THEN QuestionReply(history)
          ELSE FallbackReply(text, d)

\* the delay handleSubmit passes to setTimeout, in ms
ReplyDelay(v, reply) ==
  Min(1200, Max(300, reply.chars * (IF v = "part_002" THEN 25 ELSE 30)))

\* a chat message; `of` numbers the submission it belongs to (0: none)
ChatMsg(role, content, of) == [role |-> role, content |-> content, of |-> of]

\* ChatView's initial useState values
ChatMounted(v) ==
  [messages |-> IF v = "part_002"
                THEN <<ChatMsg("assistant", "opening", 0),
                       ChatMsg("assistant", "offer", 0)>>
                ELSE <<ChatMsg("assistant", "opening", 0)>>,
   isTyping |-> FALSE,
   timers |-> {},
   sent |-> 0]

----------------------------------------------------------------------------
(* Initial state: the component mounted on a browser with an empty store *)

\* the useState values before the initial effect has run
Unloaded ==
  /\ variant \in Variants
  /\ state = Null
  /\ selected = <<>>
  /\ score = 0
  /\ totalPoints = 0
  /\ err = "none"
  /\ last = "mount"
  /\ target = "none"
  /\ ops = 0
  /\ todayIndex = 0
  /\ chat = ChatMounted(variant)

Mounted == Unloaded /\ storage = NoEntry /\ now = 0

\* no function is being called on its own
NoCall == arg = "none" /\ res = "none"

Init == Mounted /\ NoCall /\ budget = MaxOps

\* what a handler called with (dayIdx, qid) is pointed at, before it runs
Target(s, dayIdx, qid) ==
  IF s = Null THEN "noState"
  ELSE IF dayIdx + 1 \notin DOMAIN s.plans THEN "noDay"
  ELSE LET quests == s.plans[dayIdx + 1].quests
           j      == FindQuest(quests, qid)
       IN IF j = 0 THEN "noQuest"
          ELSE IF quests[j].enabled THEN "enabled" ELSE "disabled"

Step(name, tgt) ==
  /\ ops < budget
  /\ ops' = ops + 1
  /\ last' = name
  /\ target' = tgt
  /\ chat' = IF name = "reload" THEN ChatMounted(variant) ELSE chat
  /\ UNCHANGED <<variant, budget, arg, res, now>>

\* the render after a handler: the todayIndex memo
Rendered == todayIndex' = MemoTodayIndex(state, state', todayIndex, now)

----------------------------------------------------------------------------
(* Wizard (rendered while there is no plan) *)

toggleCategory(key) ==
  /\ ~hasPlan(state)
  /\ Step("toggleCategory", "none")
  /\ selected' =
       IF \E i \in DOMAIN selected : selected[i] = key
       THEN SelectSeq(selected, LAMBDA k : k # key)
       ELSE Append(selected, key)
  /\ err' = "none"
  /\ UNCHANGED <<state, storage, score, totalPoints>>
  /\ Rendered

clearSelection ==
  /\ ~hasPlan(state)
  /\ Step("clearSelection", "none")
  /\ selected' = <<>>
  /\ err' = "none"
  /\ UNCHANGED <<state, storage, score, totalPoints>>
  /\ Rendered

\* generate passing the selection on as it is, without the default pair
generateWithoutDefault(rnd) ==
  /\ ~hasPlan(state)
  /\ Step("generate", "none")
  /\ LET next == [selectedCategories |-> selected,
                  plans |-> buildWeekPlan(variant, selected, rnd),
                  createdAt |-> now]
     IN /\ state' = next
        /\ storage' = saveState(next)
        /\ totalPoints' = Memo(variant, next)
  /\ err' = "none"
  /\ UNCHANGED <<selected, score>>
  /\ Rendered

generate(rnd) ==
  /\ ~hasPlan(state)
  /\ Step("generate", "none")
  /\ LET base == IF Len(selected) > 0 THEN selected
                 ELSE <<"exercise", "learning">>
         next == [selectedCategories |-> base,
                  plans |-> buildWeekPlan(variant, base, rnd),
                  createdAt |-> now]
     IN /\ state' = next
        /\ storage' = saveState(next)
        /\ totalPoints' = Memo(variant, next)
  /\ err' = "none"
  /\ UNCHANGED <<selected, score>>
  /\ Rendered

----------------------------------------------------------------------------
(* Quest handlers of Page *)

\* toggleDone's early return on the quest found (part_002 adds !q.enabled)
DoneGuard(v, q) == IF v = "part_002" THEN q.enabled ELSE TRUE

\* the score state after toggleDone set the quest's done flag to nowDone
ScoreAfterToggle(v, s, nowDone) ==
  IF v = "page"
  THEN IF nowDone THEN addScore(s, 1) ELSE Max(0, s - 1)
  ELSE s

\* toggleEnabled's update of the quest found
EnabledToggled(v, q) ==
  LET q1 == [q EXCEPT !.enabled = ~q.enabled]
  IN IF v = "part_002" /\ ~q1.enabled THEN [q1 EXCEPT !.done = FALSE] ELSE q1

\* QuestView.toggleDay's update of one quest
DayToggled(q, checked) ==
  [q EXCEPT !.enabled = checked, !.done = IF ~checked THEN FALSE ELSE q.done]

\* a handler that returns before setState
Return ==
  /\ err' = "none"
  /\ UNCHANGED <<state, storage, selected, score, totalPoints>>

\* `day.quests` with day undefined
Throw ==
  /\ err' = "TypeError"
  /\ UNCHANGED <<state, storage, selected, score, totalPoints>>

\* setState(copy); saveState(copy)
Publish(copy) ==
  /\ state' = copy
  /\ storage' = saveState(copy)
  /\ totalPoints' = Memo(variant, copy)
  /\ err' = "none"

\* what the component holds: the React state, the store and the memo
Held == [state |-> state, storage |-> storage, score |-> score,
         totalPoints |-> totalPoints, err |-> err]

\* toggleDone flipping every quest of the day that carries the id, not the
\* first one only
toggleDoneOnEveryMatch(v, w, dayIdx, qid) ==
  IF w.state = Null THEN [w EXCEPT !.err = "none"]
  ELSE IF dayIdx + 1 \notin DOMAIN w.state.plans
       THEN [w EXCEPT !.err = "TypeError"]
  ELSE LET quests == w.state.plans[dayIdx + 1].quests
           j      == FindQuest(quests, qid)
       IN IF j = 0 THEN [w EXCEPT !.err = "none"]
          ELSE IF ~DoneGuard(v, quests[j]) THEN [w EXCEPT !.err = "none"]
          ELSE LET q2   == [quests[j] EXCEPT !.done = ~quests[j].done]
                   copy == [w.state EXCEPT !.plans[dayIdx + 1].quests =
                              [h \in DOMAIN quests |->
                                 IF quests[h].id = qid
                                 THEN [quests[h] EXCEPT !.done = ~quests[h].done]
                                 ELSE quests[h]]]
               IN [state |-> copy,
                   storage |-> saveState(copy),
                   score |-> ScoreAfterToggle(v, w.score, q2.done),
                   totalPoints |-> Memo(v, copy),
                   err |-> "none"]

\* toggleDone(dayIdx, qid) run on what the component holds
toggleDoneOn(v, w, dayIdx, qid) ==
  IF w.state = Null THEN [w EXCEPT !.err = "none"]
  ELSE IF dayIdx + 1 \notin DOMAIN w.state.plans
       THEN [w EXCEPT !.err = "TypeError"]
  ELSE LET quests == w.state.plans[dayIdx + 1].quests
           j      == FindQuest(quests, qid)
       IN IF j = 0 THEN [w EXCEPT !.err = "none"]
          ELSE IF ~DoneGuard(v, quests[j]) THEN [w EXCEPT !.err = "none"]
          ELSE LET q2   == [quests[j] EXCEPT !.done = ~quests[j].done]
                   copy == [w.state EXCEPT !.plans[dayIdx + 1].quests[j] = q2]
               IN [state |-> copy,
                   storage |-> saveState(copy),
                   score |-> ScoreAfterToggle(v, w.score, q2.done),
                   totalPoints |-> Memo(v, copy),
                   err |-> "none"]

toggleDone(dayIdx, qid) ==
  /\ Step("toggleDone", Target(state, dayIdx, qid))
  /\ LET r == toggleDoneOn(variant, Held, dayIdx, qid)
     IN /\ state' = r.state
        /\ storage' = r.storage
        /\ score' = r.score
        /\ totalPoints' = r.totalPoints
        /\ err' = r.err
  /\ UNCHANGED selected
  /\ Rendered

toggleEnabled(dayIdx, qid) ==
  /\ Step("toggleEnabled", Target(state, dayIdx, qid))
  /\ IF state = Null THEN Return
     ELSE IF dayIdx + 1 \notin DOMAIN state.plans THEN Throw
     ELSE LET quests == state.plans[dayIdx + 1].quests
              j      == FindQuest(quests, qid)
          IN IF j = 0 THEN Return
             ELSE /\ Publish([state EXCEPT !.plans[dayIdx + 1].quests[j] =
                                EnabledToggled(variant, quests[j])])
                  /\ UNCHANGED <<selected, score>>
  /\ Rendered

\* part_002 QuestView: the day switch writes into the plan objects of `state`
\* themselves; no setState, no saveState, no re-render
toggleDay(idx, checked) ==
  /\ variant = "part_002"
  /\ state # Null
  /\ idx + 1 \in DOMAIN state.plans
  /\ Step("toggleDay", "none")
  /\ state' = [state EXCEPT !.plans[idx + 1].quests =
                 [j \in DOMAIN @ |-> DayToggled(@[j], checked)]]
  /\ err' = "none"
  /\ UNCHANGED <<storage, selected, score, totalPoints, todayIndex>>

\* resetAll without localStorage.removeItem
resetAllKeepsEntry ==
  /\ Step("resetAll", "none")
  /\ state' = Null
  /\ selected' = <<>>
  /\ totalPoints' = Memo(variant, Null)
  /\ err' = "none"
  /\ UNCHANGED <<storage, score>>
  /\ Rendered

\* resetAll without setSelected([])
resetAllKeepsSelection ==
  /\ Step("resetAll", "none")
  /\ state' = Null
  /\ storage' = NoEntry
  /\ totalPoints' = Memo(variant, Null)
  /\ err' = "none"
  /\ UNCHANGED <<selected, score>>
  /\ Rendered

resetAll ==
  /\ Step("resetAll", "none")
  /\ state' = Null
  /\ selected' = <<>>
  /\ storage' = NoEntry
  /\ totalPoints' = Memo(variant, Null)
  /\ err' = "none"
  /\ UNCHANGED score
  /\ Rendered

\* onThemeChange building the new state without spreading the old one
onThemeChangeWithoutPlans(theme) ==
  /\ hasPlan(state)
  /\ Step("onThemeChange", "none")
  /\ LET next == [selectedCategories |-> state.selectedCategories,
                  plans |-> <<>>,
                  createdAt |-> state.createdAt,
                  theme |-> theme]
     IN /\ state' = next
        /\ storage' = saveState(next)
  /\ err' = "none"
  /\ UNCHANGED <<selected, score, totalPoints>>
  /\ Rendered

\* onThemeChange of the settings tab (rendered only with a plan): the new state
\* shares `plans` with the old one, so the totalPoints memo is not recomputed
onThemeChange(theme) ==
  /\ hasPlan(state)
  /\ Step("onThemeChange", "none")
  /\ LET next == [selectedCategories |-> state.selectedCategories,
                  plans |-> state.plans,
                  createdAt |-> state.createdAt,
                  theme |-> theme]
     IN /\ state' = next
        /\ storage' = saveState(next)
  /\ err' = "none"
  /\ UNCHANGED <<selected, score, totalPoints>>
  /\ Rendered

\* the page is loaded again: every useState starts over, then the initial
\* effect reads the store
reload ==
  /\ Step("reload", "none")
  /\ LET s == loadState(storage)
     IN IF IsThrown(s)
        THEN /\ state' = Null
             /\ selected' = <<>>
             /\ totalPoints' = Memo(variant, Null)
             /\ err' = s.thrown
        ELSE /\ state' = s
             /\ selected' = IF s # Null /\ Len(s.plans) = 0
                               /\ Len(s.selectedCategories) > 0
                            THEN s.selectedCategories ELSE <<>>
             /\ totalPoints' = Memo(variant, s)
             /\ err' = "none"
  /\ score' = 0
  /\ UNCHANGED storage
  /\ todayIndex' = ComputeTodayIndex(state', now)

----------------------------------------------------------------------------

Next ==
  \/ \E key \in CategoryInputs : toggleCategory(key)
  \/ clearSelection
  \/ \E rnd \in RandomSources : generate(rnd)
  \/ \E d \in DayIdxInputs : \E qid \in QidInputs(state, d) : toggleDone(d, qid)
  \/ \E d \in DayIdxInputs : \E qid \in QidInputs(state, d) : toggleEnabled(d, qid)
  \/ \E d \in DayIdxInputs, checked \in BOOLEAN : toggleDay(d, checked)
  \/ resetAll
  \/ \E theme \in ThemeInputs : onThemeChange(theme)
  \/ reload

Spec == Init /\ [][Next]_vars

----------------------------------------------------------------------------
(* The completion scenario: a plan is created and quests are checked off;   *)
(* no other handler runs.                                                  *)

InitScenario == Mounted /\ NoCall /\ budget = MaxScenarioOps

NextScenario ==
  \/ \E rnd \in RandomSources : generate(rnd)
  \/ \E d \in DayIdxInputs : \E qid \in QidInputs(state, d) : toggleDone(d, qid)

SpecScenario == InitScenario /\ [][NextScenario]_vars

----------------------------------------------------------------------------
(* The page with every handler, for behaviours of MaxToggleOps handlers *)

InitToggle == Mounted /\ NoCall /\ budget = MaxToggleOps

SpecToggle == InitToggle /\ [][Next]_vars

----------------------------------------------------------------------------
(* calculateRank and toNext called on their own, on every score up to      *)
(* MaxScoreArg                                                             *)

\* the variables of the page, which a call of a function on its own leaves alone
pageVars ==
  <<state, storage, selected, score, totalPoints, err, target, ops, budget,
    now, todayIndex, chat>>

InitRank ==
  /\ Mounted
  /\ variant # "part_001"
  /\ budget = 0
  /\ arg \in 0..MaxScoreArg
  /\ res = "none"

callCalculateRank ==
  /\ last = "mount"
  /\ last' = "calculateRank"
  /\ res' = calculateRank(arg)
  /\ UNCHANGED <<variant, arg, pageVars>>

callToNext ==
  /\ variant = "part_002"
  /\ last = "mount"
  /\ last' = "toNext"
  /\ res' = toNext(arg)
  /\ UNCHANGED <<variant, arg, pageVars>>

NextRank == callCalculateRank \/ callToNext

SpecRank == InitRank /\ [][NextRank]_vars

----------------------------------------------------------------------------
(* buildWeekPlan called on its own, on every selection of SelectionInputs *)

InitPlan ==
  /\ Mounted
  /\ budget = 0
  /\ arg \in SelectionInputs
  /\ res = "none"

callBuildWeekPlan(rnd) ==
  /\ last = "mount"
  /\ last' = "buildWeekPlan"
  /\ res' = buildWeekPlan(variant, arg, rnd)
  /\ UNCHANGED <<variant, arg, pageVars>>

NextPlan == \E rnd \in RandomSources : callBuildWeekPlan(rnd)

SpecPlan == InitPlan /\ [][NextPlan]_vars

----------------------------------------------------------------------------
(* The page opened on a browser whose store holds anything: no entry, an   *)
(* empty or corrupt one, a store that refuses access, or a saved plan.     *)

\* what the store can hold when the page of iteration v is opened
StoreInputs(v) ==
  {NoEntry, EmptyEntry, CorruptEntry, Unavailable}
  \cup {saveState([selectedCategories |-> sel,
                   plans |-> buildWeekPlan(v, sel, rnd),
                   createdAt |-> 0]) :
          sel \in SelectionInputs, rnd \in RandomSources}

InitLoad ==
  /\ Unloaded
  /\ storage \in StoreInputs(variant)
  /\ now = 0
  /\ NoCall
  /\ budget = MaxOps

NextLoad == reload

SpecLoad == InitLoad /\ [][NextLoad]_vars

----------------------------------------------------------------------------
(* The page kept open while the clock runs: plans are made, dropped and    *)
(* loaded again at any tick.                                               *)

InitClock == Mounted /\ NoCall /\ budget = MaxClockOps

\* half a day passes; the page stays as it is
tick ==
  /\ now < MaxNow
  /\ now' = now + 1
  /\ UNCHANGED <<variant, state, storage, selected, score, totalPoints, err,
                 last, target, ops, budget, arg, res, todayIndex, chat>>

NextClock ==
  \/ tick
  \/ \E rnd \in RandomSources : generate(rnd)
  \/ resetAll
  \/ reload

SpecClock == InitClock /\ [][NextClock]_vars

----------------------------------------------------------------------------
(* mockAssistant called on its own, on every text of TextInputs, with each  *)
(* conversation of HistoryInputs and every outcome of shuffle               *)

InitReply ==
  /\ Mounted
  /\ variant # "part_001"
  /\ budget = 0
  /\ arg \in [input : TextInputs, history : HistoryInputs]
  /\ res = "none"

callMockAssistant(d) ==
  /\ last = "mount"
  /\ last' = "mockAssistant"
  /\ res' = mockAssistant(variant, arg.input, arg.history, d)
  /\ UNCHANGED <<variant, arg, pageVars>>

NextReply == \E d \in ShuffleDraws : callMockAssistant(d)

SpecReply == InitReply /\ [][NextReply]_vars

----------------------------------------------------------------------------
(* The chat tab: messages are sent, the clock runs, timers run when due,    *)
(* the chat is reset.                                                       *)

\* the variables ChatView leaves alone
outsideChat ==
  <<variant, state, storage, selected, score, totalPoints, err, ops, budget,
    arg, res, now, todayIndex>>

InitChat == Mounted /\ NoCall /\ variant # "part_001" /\ budget = 0

\* MessageInput / ChatInput and handleSubmit(text); d: the draws of shuffle
handleSubmit(text, d) ==
  /\ chat.sent < MaxChatSubmits
  /\ last' = "handleSubmit"
  /\ IF trim(text) = <<>>
     THEN /\ target' = "blank"
          /\ UNCHANGED chat
     ELSE LET t     == IF variant = "part_002" THEN trim(text) ELSE text
              n     == chat.sent + 1
              reply == mockAssistant(variant, t, chat.messages, d)
          IN /\ target' = "accepted"
             /\ chat' = [messages |-> Append(chat.messages, ChatMsg("user", t, n)),
                         isTyping |-> TRUE,
                         timers   |-> chat.timers \cup
                                      {[of |-> n, reply |-> reply,
                                        left |-> ReplyDelay(variant, reply)]},
                         sent     |-> n]
  /\ UNCHANGED outsideChat

\* ChatTick ms pass; a timer that is due runs before more time passes
elapse ==
  /\ chat.timers # {}
  /\ \A tm \in chat.timers : tm.left > 0
  /\ chat' = [chat EXCEPT !.timers =
                {[tm EXCEPT !.left = @ - ChatTick] : tm \in chat.timers}]
  /\ UNCHANGED <<last, target, outsideChat>>

\* the callback handleSubmit gave to setTimeout
timerRuns(tm) ==
  /\ tm \in chat.timers
  /\ tm.left = 0
  /\ last' = "timerRuns"
  /\ target' = "none"
  /\ chat' = [chat EXCEPT
                !.messages = Append(@, ChatMsg("assistant", tm.reply.rule, tm.of)),
                !.isTyping = FALSE,
                !.timers = @ \ {tm}]
  /\ UNCHANGED outsideChat

resetChat ==
  /\ last' = "resetChat"
  /\ target' = "none"
  /\ chat' = [chat EXCEPT !.messages = <<ChatMsg("assistant", "restart", 0)>>]
  /\ UNCHANGED outsideChat

NextChat ==
  \/ \E text \in SubmitInputs, d \in SubmitShuffleDraws : handleSubmit(text, d)
  \/ elapse
  \/ \E tm \in chat.timers : timerRuns(tm)
  \/ resetChat

SpecChat == InitChat /\ [][NextChat]_vars

----------------------------------------------------------------------------
(* Properties *)

\* the score the page shows: page.tsx renders `score`, part_002 `totalPoints`
ScoreShown == IF variant = "page" THEN score ELSE totalPoints

HasScore == variant \in {"page", "part_002"}

DoneQuests(s) == {x \in AllQuests(s) : QuestAt(s, x).done}

\* C1: in every reachable state every quest satisfies !enabled => !done.
DisabledImpliesNotDone ==
  \A x \in AllQuests(state) : ~QuestAt(state, x).enabled => ~QuestAt(state, x).done

\* C2: a toggleEnabled call that takes a quest from enabled to disabled leaves
\* that quest with done = false, whatever done was before.
DisablingClearsDone ==
  [][last' = "toggleEnabled" =>
       \A x \in AllQuests(state) :
         (x \in AllQuests(state') /\ QuestAt(state, x).enabled
            /\ ~QuestAt(state', x).enabled)
         => ~QuestAt(state', x).done]_vars

\* C3: toggleDone on a disabled quest, or with a quest id the day does not
\* hold, changes neither the state, nor the score, nor the stored entry, and
\* raises nothing.
ToggleDoneNoOpOnDisabledOrMissing ==
  [][(last' = "toggleDone" /\ target' \in {"disabled", "noQuest"}) =>
       (/\ state' = state
        /\ storage' = storage
        /\ score' = score
        /\ totalPoints' = totalPoints
        /\ err' = "none")]_vars

\* C4: toggleDone and toggleEnabled called with a day index that plans does
\* not have raise no exception and leave state and storage unchanged.
MissingDayIsSilentNoOp ==
  [][(last' \in {"toggleDone", "toggleEnabled"} /\ target' = "noDay") =>
       (/\ err' = "none"
        /\ state' = state
        /\ storage' = storage)]_vars

\* C5: right after resetAll there is no stored entry and the state in memory
\* has no plan.
ResetLeavesNoEntryAndNoPlan ==
  last = "resetAll" => (storage = NoEntry /\ state = Null /\ ~hasPlan(state))

\* C5 witness: resetAll ran in page.tsx after a plan was made and one quest
\* was completed.
ResetAfterACompletion ==
  /\ last = "resetAll"
  /\ variant = "page"
  /\ score = 1
  /\ storage = NoEntry

\* C6 as stated: right after resetAll the score is 0 and the selection empty.
ResetDiscardsScore ==
  last = "resetAll" => (ScoreShown = 0 /\ selected = <<>>)

\* C6 as amended: resetAll discards the plans and the pending selection and
\* the total derived from the plans (part_002) is 0 right after it; the score
\* state of page.tsx is left as it was.
ResetKeepsScoreState ==
  [][last' = "resetAll" =>
       (/\ state' = Null
        /\ selected' = <<>>
        /\ totalPoints' = 0
        /\ score' = score)]_vars

\* C6 witness: resetAll ran in page.tsx with two points earned, and they are
\* still there.
ResetWithPointsCarriedOver ==
  /\ last = "resetAll"
  /\ variant = "page"
  /\ score = 2
  /\ state = Null
  /\ selected = <<>>

\* C7: after every handler the stored entry is the serialised state in memory,
\* and it is absent exactly when there is no state in memory.
StorageMirrorsState ==
  /\ (state = Null) <=> (storage = NoEntry)
  /\ state # Null => storage = saveState(state)

\* C8: in every reachable state the score shown is 10 x the number of quests,
\* over all 7 days, that are done and enabled.
ScoreIsTenPerDoneQuest ==
  HasScore => ScoreShown = ComputeTotalPoints(state)

\* C9: from any reachable state, toggling an enabled quest that is not done to
\* done and straight back leaves the score shown as it was.
ScoreRoundTrip ==
  \A d \in DayIdxInputs : \A qid \in QidInputs(state, d) :
    (/\ HasScore
     /\ Target(state, d, qid) = "enabled"
     /\ ~state.plans[d + 1].quests[FindQuest(state.plans[d + 1].quests, qid)].done)
    => LET r1 == toggleDoneOn(variant, Held, d, qid)
           r2 == toggleDoneOn(variant, r1, d, qid)
       IN (IF variant = "page" THEN r2.score ELSE r2.totalPoints) = ScoreShown

\* C10: from a fresh plan with score 0, completing 5 distinct enabled quests
\* gives score 50 and rank Squire.
FiveCompletionsMakeSquire ==
  (/\ HasScore
   /\ last = "toggleDone"
   /\ ops = 6
   /\ Cardinality(DoneQuests(state)) = 5)
  => (ScoreShown = 50 /\ calculateRank(ScoreShown) = "Squire")

\* C10 witness: part_002 after a plan and five completions shows 50, Squire.
FiveCompletionsInPart002 ==
  /\ variant = "part_002"
  /\ ops = 6
  /\ Cardinality(DoneQuests(state)) = 5
  /\ totalPoints = 50
  /\ calculateRank(totalPoints) = "Squire"

\* what one completion is worth in the score shown: page.tsx adds 1 per
\* completion, part_002 counts POINTS_PER_QUEST per done quest
PointsPerCompletion == IF variant = "page" THEN 1 ELSE POINTS_PER_QUEST

\* C11: the score shown is >= 0 after every step, and a toggleDone that takes
\* a quest back from done subtracts what a completion adds, clamped at 0, just
\* as a toggleDone that completes a quest adds it.
ScoreClampedAndSymmetric ==
  [][/\ ScoreShown' >= 0
     /\ (HasScore /\ last' = "toggleDone") =>
          \A x \in AllQuests(state) :
            (x \in AllQuests(state')
               /\ QuestAt(state, x).done # QuestAt(state', x).done)
            => ScoreShown' = IF QuestAt(state, x).done
                             THEN Max(0, ScoreShown - PointsPerCompletion)
                             ELSE ScoreShown + PointsPerCompletion]_vars

\* C12: a toggleEnabled that flips the enabled flag of a quest whose done flag
\* is false, in either direction, leaves the score shown unchanged.
EnablingNotDoneKeepsScore ==
  [][last' = "toggleEnabled" =>
       \A x \in AllQuests(state) :
         (x \in AllQuests(state')
            /\ QuestAt(state, x).enabled # QuestAt(state', x).enabled
            /\ ~QuestAt(state, x).done)
         => ScoreShown' = ScoreShown]_vars

\* the highest tier of rankOrder whose threshold is at most s
HighestTierReached(s) ==
  LET reached == {i \in DOMAIN rankOrder : thresholdByRank[rankOrder[i]] <= s}
  IN rankOrder[CHOOSE i \in reached : \A h \in reached : h <= i]

\* C13: calculateRank(s) is the highest tier whose threshold is at most s; it
\* never ranks a smaller score higher; 0 is Novice and 1000 is Sovereign.
RankIsHighestTierReached ==
  last = "calculateRank" =>
    /\ res = HighestTierReached(arg)
    /\ \A lower \in 0..arg : RankIndex(calculateRank(lower)) <= RankIndex(res)
    /\ arg = 0 => res = "Novice"
    /\ arg = 1000 => res = "Sovereign"

\* C13 witness: calculateRank was called with 1000 and returned Sovereign.
RankOfThousand ==
  /\ last = "calculateRank"
  /\ arg = 1000
  /\ res = "Sovereign"

\* C14: for every non-empty selection buildWeekPlan returns exactly 7 day
\* plans whose day fields are 1..7 in order, each with at most 5 quests, every
\* quest enabled and not done.
WeekPlanShape ==
  last = "buildWeekPlan" =>
    /\ Len(res) = 7
    /\ \A i \in 1..7 :
         /\ res[i].day = i
         /\ Len(res[i].quests) <= 5
         /\ \A j \in DOMAIN res[i].quests :
              res[i].quests[j].enabled /\ ~res[i].quests[j].done

\* C14 witness: a plan built from three categories, its first day cut to 5.
PlanOfThreeCategories ==
  /\ last = "buildWeekPlan"
  /\ Len(arg) = 3
  /\ Len(res[1].quests) = 5

\* the two titles of each selected category from position idx on, for day i,
\* in selection order
RECURSIVE TitlePairs(_, _, _)
TitlePairs(sel, i, idx) ==
  IF idx >= Len(sel) THEN <<>>
  ELSE LET pool  == TEMPLATE_QUESTS[sel[idx + 1]]
           first == (i + idx) % Len(pool)
       IN <<pool[first + 1], pool[((first + 1) % Len(pool)) + 1]>>
            \o TitlePairs(sel, i, idx + 1)

FirstFive(s) == SubSeq(s, 1, Min(5, Len(s)))

\* the titles of day i of a plan, in order
TitlesOfDay(plans, i) ==
  [j \in DOMAIN plans[i].quests |-> plans[i].quests[j].title]

\* C15: the titles of day i are the first 5 entries of the concatenation, in
\* selection order, of the pairs pool[(i+idx) mod len], pool[that + 1 mod len];
\* for <<exercise, learning>> day 1 is exercise[1], exercise[2], learning[2],
\* learning[0].
TitlesRotateByDay ==
  last = "buildWeekPlan" =>
    /\ \A i \in 1..7 : TitlesOfDay(res, i) = FirstFive(TitlePairs(arg, i, 0))
    /\ arg = <<"exercise", "learning">> =>
         TitlesOfDay(res, 1) = <<"exercise1", "exercise2", "learning2", "learning0">>

\* C15 witness: the plan of <<exercise, learning>> with the day 1 of the claim.
PlanOfExerciseAndLearning ==
  /\ last = "buildWeekPlan"
  /\ arg = <<"exercise", "learning">>
  /\ TitlesOfDay(res, 1) = <<"exercise1", "exercise2", "learning2", "learning0">>

\* C16: all quest ids of one generated plan are pairwise distinct, whatever
\* the random id source draws.
QuestIdsDistinct ==
  last = "buildWeekPlan" =>
    \A i, h \in DOMAIN res :
      \A j \in DOMAIN res[i].quests : \A k \in DOMAIN res[h].quests :
        (<<i, j>> # <<h, k>>) => res[i].quests[j].id # res[h].quests[k].id

LoadFailsSoft ==
  (last = "reload"
     /\ storage \in {NoEntry, EmptyEntry, CorruptEntry, Unavailable})
  => (/\ err = "none"
      /\ loadState(storage) = Null
      /\ state = Null
      /\ ~hasPlan(state)
      /\ selected = <<>>)

\* C18 witness: the page was opened on a corrupt entry and shows the wizard.
OpenedOnCorruptEntry ==
  /\ last = "reload"
  /\ storage = CorruptEntry
  /\ state = Null
  /\ err = "none"

\* the day plans of s reduced to the ids and titles of their quests, in order
PlanSkeleton(s) ==
  [i \in DOMAIN s.plans |->
     [j \in DOMAIN s.plans[i].quests |->
        <<s.plans[i].quests[j].id, s.plans[i].quests[j].title>>]]

\* C19: generate leaves 7 day plans, and from a state with a plan every step
\* other than resetAll (toggles, theme change, reload) leaves 7 day plans
\* with the same quests: same number, order, ids and titles.
PlanStructureFixed ==
  [][/\ last' = "generate" => Len(state'.plans) = 7
     /\ (state # Null /\ last' # "resetAll") =>
          (/\ state' # Null
           /\ Len(state'.plans) = 7
           /\ PlanSkeleton(state') = PlanSkeleton(state))]_vars

\* C19 witness: a plan that went through a completion, a theme change and a
\* reload and still has its 7 days.
PlanAfterToggleThemeAndReload ==
  /\ last = "reload"
  /\ hasPlan(state)
  /\ "theme" \in DOMAIN state
  /\ DoneQuests(state) # {}
  /\ Len(state.plans) = 7

\* C20: at every moment the current-day index is the number of whole days
\* since createdAt, kept within 0..6, and 0 when there is no createdAt: it
\* moves on as each day passes while the page stays open.
TodayIndexFollowsClock ==
  todayIndex =
    IF state = Null THEN 0
    ELSE LET days == (now - state.createdAt) \div TicksPerDay
         IN IF days < 0 THEN 0 ELSE IF days > 6 THEN 6 ELSE days

\* the titles of one category's pool
PoolTitles(cat) == {TEMPLATE_QUESTS[cat][k] : k \in DOMAIN TEMPLATE_QUESTS[cat]}

\* C21: generate with an empty selection raises nothing, takes the default
\* pair <<exercise, learning>>, stores it as selectedCategories, and makes a
\* plan of 7 days with 4 quests each: two of the exercise pool, then two of
\* the learning pool.
EmptySelectionGetsDefaultPlan ==
  [][(last' = "generate" /\ selected = <<>>) =>
       (/\ err' = "none"
        /\ state'.selectedCategories = <<"exercise", "learning">>
        /\ loadState(storage').selectedCategories = <<"exercise", "learning">>
        /\ Len(state'.plans) = 7
        /\ \A i \in 1..7 :
             /\ Len(state'.plans[i].quests) = 4
             /\ \A j \in 1..2 :
                  state'.plans[i].quests[j].title \in PoolTitles("exercise")
             /\ \A j \in 3..4 :
                  state'.plans[i].quests[j].title \in PoolTitles("learning"))]_vars

\* C21 witness: a plan made from an empty selection, holding the default pair.
PlanFromEmptySelection ==
  /\ last = "generate"
  /\ selected = <<>>
  /\ state.selectedCategories = <<"exercise", "learning">>
  /\ Len(state.plans[7].quests) = 4

\* C22: the responder given "help" returns the usage message, whatever the
\* conversation so far and whatever shuffle would draw.
HelpGetsUsageMessage ==
  (last = "mockAssistant" /\ arg.input = <<"help">>)
  => res = [rule |-> "usage", chars |-> 44, quoted |-> <<>>, tips |-> <<>>]

\* the rules of the responder in the order the claim gives them
ClaimedRuleOrder ==
  <<"usage", "greeting", "weather", "vocabulary", "exercise", "question",
    "fallback">>

\* whether a rule's condition holds of a trimmed text
RuleHolds(rule, text) ==
  CASE rule = "usage"      -> MatchesUsage(text)
    [] rule = "greeting"   -> MatchesGreeting(text)
    [] rule = "weather"    -> MatchesWeather(text)
    [] rule = "vocabulary" -> MatchesVocabulary(text)
    [] rule = "exercise"   -> MatchesExercise(text)
    [] rule = "question"   -> MatchesQuestion(text)
    [] rule = "fallback"   -> TRUE

\* C23: the reply of the page.tsx responder is the reply of the earliest rule,
\* in the order usage, greeting, weather, vocabulary, exercise, question,
\* fallback, whose condition the text meets, and every reply but the
\* fallback is the same for every outcome of shuffle.
FirstMatchingRuleReplies ==
  (last = "mockAssistant" /\ variant = "page") =>
    LET text == trim(arg.input)
    IN /\ \E i \in DOMAIN ClaimedRuleOrder :
            /\ res.rule = ClaimedRuleOrder[i]
            /\ RuleHolds(ClaimedRuleOrder[i], text)
            /\ \A h \in 1..(i - 1) : ~RuleHolds(ClaimedRuleOrder[h], text)
       /\ res.rule # "fallback" =>
            \A d \in ShuffleDraws :
              mockAssistant(variant, arg.input, arg.history, d) = res

\* C23 witness: a text that meets the usage, the greeting and the question
\* rule got the usage reply.
TextMeetingThreeRules ==
  /\ last = "mockAssistant"
  /\ variant = "page"
  /\ arg.input = <<"help", "konnichiwa", "?">>
  /\ res.rule = "usage"

\* C24: when no keyword or question rule matches, the reply of the page.tsx
\* responder lists n pairwise distinct tips of the pool of 5, with
\* n = floor(length of the trimmed text / 12) kept within 3..5, for every
\* outcome of shuffle.
FallbackListsDistinctTips ==
  (last = "mockAssistant" /\ variant = "page"
     /\ \A i \in 1..6 : ~RuleHolds(ClaimedRuleOrder[i], trim(arg.input)))
  => LET twelfths == TextLength(trim(arg.input)) \div 12
         n        == IF twelfths < 3 THEN 3 ELSE IF twelfths > 5 THEN 5 ELSE twelfths
     IN /\ res.rule = "fallback"
        /\ Len(res.tips) = n
        /\ n \in 3..5
        /\ \A i \in DOMAIN res.tips : res.tips[i] \in 1..5
        /\ \A i, j \in DOMAIN res.tips : i # j => res.tips[i] # res.tips[j]

\* C24 witness: a text of 72 characters got all 5 tips, in a shuffled order.
LongTextGetsFiveTips ==
  /\ last = "mockAssistant"
  /\ variant = "page"
  /\ arg.input = <<"pad", "pad", "pad">>
  /\ Len(res.tips) = 5
  /\ res.tips # <<1, 2, 3, 4, 5>>

\* C25: a toggleDone that goes through changes the done flag of one quest and
\* nothing else of the AppState (other quests, id, title, enabled, order,
\* selectedCategories, createdAt, theme), it does go through on an enabled
\* quest, and run twice on the same enabled quest it gives back the AppState
\* it started from.
ToggleDoneFlipsOneFlag ==
  [][/\ (last' = "toggleDone" /\ state' # state) =>
          \E x \in AllQuests(state) :
            state' = [state EXCEPT !.plans[x[1]].quests[x[2]].done = ~@]
     /\ (last' = "toggleDone" /\ target' = "enabled") => state' # state
     /\ \A d \in DayIdxInputs : \A qid \in QidInputs(state, d) :
          Target(state, d, qid) = "enabled" =>
            toggleDoneOn(variant, toggleDoneOn(variant, Held, d, qid), d, qid).state
              = state]_vars

\* C25 witness: toggleDone completed a quest of a plan that has a theme and a
\* disabled quest.
CompletionInThemedPlan ==
  /\ last = "toggleDone"
  /\ target = "enabled"
  /\ "theme" \in DOMAIN state
  /\ DoneQuests(state) # {}
  /\ \E x \in AllQuests(state) : ~QuestAt(state, x).enabled

\* how many quests of day i of a plan carry a title of the pool of cat
QuestsOfCategory(plans, i, cat) ==
  Cardinality({j \in DOMAIN plans[i].quests :
                 plans[i].quests[j].title \in PoolTitles(cat)})

\* C26: every day of a built plan holds min(5, 2 x number of categories)
\* quests; with three or more categories the third one gives one quest a day
\* and every category from the fourth on gives none.
TrimmingCutsLateCategories ==
  last = "buildWeekPlan" =>
    \A i \in 1..7 :
      /\ Len(res[i].quests) = IF 2 * Len(arg) < 5 THEN 2 * Len(arg) ELSE 5
      /\ Len(arg) >= 3 =>
           /\ QuestsOfCategory(res, i, arg[3]) = 1
           /\ \A k \in 4..Len(arg) : QuestsOfCategory(res, i, arg[k]) = 0

\* C26 witness: a plan of four categories whose last day has one quest of the
\* third and none of the fourth.
PlanOfFourCategories ==
  /\ last = "buildWeekPlan"
  /\ Len(arg) = 4
  /\ QuestsOfCategory(res, 7, arg[3]) = 1
  /\ QuestsOfCategory(res, 7, arg[4]) = 0

\* the state s with every quest of its plan enabled and done
FullyCompleted(s) ==
  [s EXCEPT !.plans =
     [i \in DOMAIN s.plans |->
        [day |-> s.plans[i].day,
         quests |-> [j \in DOMAIN s.plans[i].quests |->
                       [s.plans[i].quests[j] EXCEPT !.done = TRUE,
                                                    !.enabled = TRUE]]]]]

\* C27: every rank tier is within reach of the total derived from a plan: the
\* total of the plan with all its quests done is at least the threshold of
\* each tier, 500 and 1000 included.
EveryTierWithinReach ==
  (variant = "part_002" /\ hasPlan(state)) =>
    \A i \in DOMAIN rankOrder :
      ComputeTotalPoints(FullyCompleted(state)) >= thresholdByRank[rankOrder[i]]

\* C28: the points remaining to the next rank are never negative; for a total
\* below 1000 they are positive and total + remaining is the threshold of the
\* tier right above the tier reached; from 1000 on they are 0.
PointsToNextRank ==
  last = "toNext" =>
    /\ res >= 0
    /\ arg < 1000 =>
         /\ res > 0
         /\ arg + res =
              thresholdByRank[rankOrder[RankIndex(HighestTierReached(arg)) + 1]]
    /\ arg >= 1000 => res = 0

\* C28 witness: toNext was called with 1050, past the top threshold.
ToNextPastTheTop ==
  /\ last = "toNext"
  /\ arg = 1050
  /\ res = 0

\* C29: the typing indicator is on exactly while at least one reply is still
\* to come, also when a second message is sent before the first reply and
\* when the chat is reset while a reply is to come.
TypingWhileReplyPending ==
  chat.isTyping <=> (chat.timers # {})

\* positions of the message list holding the reply to a submission
ReplyPositions(msgs) ==
  {i \in DOMAIN msgs : msgs[i].role = "assistant" /\ msgs[i].of > 0}

\* C30: in the message list every reply stands after the user message it
\* answers (it is never added to a conversation reset since that message was
\* sent), no message has two replies, replies stand in the order in which
\* their messages were sent, and a submission without a timer still to run
\* has got its reply.
RepliesInOrderAndInPlace ==
  LET msgs == chat.messages
  IN /\ \A i \in ReplyPositions(msgs) :
          \E h \in 1..(i - 1) : msgs[h].role = "user" /\ msgs[h].of = msgs[i].of
     /\ \A i, j \in ReplyPositions(msgs) :
          /\ (i # j) => msgs[i].of # msgs[j].of
          /\ (i < j) => msgs[i].of < msgs[j].of
     /\ \A h \in DOMAIN msgs :
          (msgs[h].role = "user" /\ \A tm \in chat.timers : tm.of # msgs[h].of)
          => \E i \in ReplyPositions(msgs) : msgs[i].of = msgs[h].of

====
